---- MODULE Spec2Model ----
(***************************************************************************)
(* A model of M31-Mini's orchestration core.                               *)
(*                                                                         *)
(*  - the dispatch engine of backend/scheduler/tasks.py over the Agent and *)
(*    Task rows of backend/agent_core/db.py: execute_agent_task,           *)
(*    cancel_task, retry_failed_tasks and process_scheduled_tasks, each    *)
(*    database call being one step, so that concurrent workers interleave  *)
(*    between a read and the write that depends on it;                     *)
(*  - the in-process Agent.run_task / AgentExecutor.execute_plan loop of   *)
(*    backend/agent_core/agent.py and executor.py.                         *)
(*                                                                         *)
(* Every awaited or database call may raise; an exception moves the caller *)
(* to the except clause that encloses the call.  Timestamps are readings   *)
(* of a logical clock `now`, one tick standing for a day.                  *)
(***************************************************************************)
EXTENDS Integers, Sequences, FiniteSets, Bags, TLC

\* Python's None in a nullable column (timestamps, plan, results, error).
None == -1

\* ------------------------------------------------------------------ bounds
\* Last reading of the logical clock.
MaxTime == 2
\* Deliveries of execute_agent_task that find the Agent busy are re-queued
\* by self.retry(countdown=60, max_retries=10).
DispatchMaxRetries == 10
\* settings.scheduler.max_retries
max_retries == 3
\* retry_failed_tasks looks back 24 hours, one tick of the clock.
RetryWindow == 1

\* Longest plan the planner returns.
MaxSteps == 3
\* cleanup_old_completed_tasks(days): the age, in ticks of the clock,
\* from which a finished Task is cleaned up.
CleanupDays == 1
\* Memory entries made in a run.
MaxEntries == 2
\* Worker processes lost in a run.
MaxCrashes == 1
Agents == {"a1"}
Tasks == {"t1", "t2"}
Workers == {"w1", "w2"}

\* Task.agent_id: both tasks belong to the one agent.
AgentOf(t) == "a1"

VARIABLES
    agents,     \* Agent rows: agent id -> [status]
    tasks,      \* Task rows: task id -> record of the columns
    queue,      \* the broker: a bag of execute_agent_task messages
    run,        \* one execute_agent_task delivery per worker
    cancelOp,   \* the cancel_task call in progress
    retryOp,    \* the retry_failed_tasks call in progress
    schedOp,    \* the process_scheduled_tasks call in progress
    now,        \* the clock read by datetime.utcnow()
    failed_dispatch,    \* Celery's record of the deliveries that ended with
                        \* MaxRetriesExceededError: the task ids
    cleanupOp,  \* the cleanup_old_completed_tasks call in progress
    archive,    \* the archive files written: each the set of its records
    agent_status,   \* Agent.status of the in-process Agent object
    current_task,   \* Agent.current_task: [status, results]
    executor,       \* its AgentExecutor: results, _cancel_event, the time limit
    rt,             \* the Agent.run_task coroutine
    toolCalls,      \* the steps of this run for which execute_tool was awaited
    step_memory,    \* the step_result entries add_memory stored for the current task
    vector_store,   \* the vector index: namespace -> its entries
    redis_memory,   \* Redis keys memory:{namespace}:{id}: namespace -> entries
    search_cache,   \* Redis keys search_cache:{key}: key -> the cached list
    batch_queue,    \* MemoryManager._batch_queue: namespace -> queued items
    task_memory_cache,  \* MemoryManager._task_memory_cache: task -> message ids
    next_id,        \* the next uuid4
    batch_loop,     \* the _batch_processing_loop coroutine
    search_op,      \* the search() call in progress
    conv_op,        \* the add_conversation() call in progress
    last_result,    \* per cache key, the list the latest search() returned
    deleted_entries, \* the entries a metadata-filter delete took out of the index
    run_result,     \* what a run_task call made on the busy Agent returned
    saved_status,   \* the status in the agent state save_state stored last
    cancel_result,  \* what the cancel_agent_task call in progress returned
    retry_enqueued, \* per Task, how often retry_failed_tasks has queued it
    crashes,        \* the number of worker processes lost in mid-delivery
    batch_call,     \* an add_batch call made from outside the batch loop
    llm_call,       \* a reasoning call of the planner or the executor, on its own
    scored          \* the latest search(min_score=...): its min_score, the list returned

\* What cleanup_old_completed_tasks alone writes.
cleanupVars == <<cleanupOp, archive>>

engineVars == <<agents, tasks, queue, run, cancelOp, retryOp, schedOp, now,
                failed_dispatch, cleanupOp, archive>>

agentVars == <<agent_status, current_task, executor, rt, toolCalls, step_memory>>

memVars == <<vector_store, redis_memory, search_cache, batch_queue,
             task_memory_cache, next_id, batch_loop, search_op, conv_op, last_result,
             deleted_entries>>

\* What cancel_agent_task reads and writes.
cancelVars == <<saved_status, cancel_result>>

callVars == <<run_result, cancelVars, retry_enqueued, crashes, batch_call, llm_call,
             scored>>

vars == <<agents, tasks, queue, run, cancelOp, retryOp, schedOp, now,
          failed_dispatch, cleanupOp, archive, agent_status, current_task, executor, rt, toolCalls, step_memory,
          vector_store, redis_memory, search_cache, batch_queue,
          task_memory_cache, next_id, batch_loop, search_op, conv_op, last_result,
          deleted_entries, run_result, saved_status, cancel_result, retry_enqueued,
          crashes, batch_call, llm_call, scored>>

\* ---------------------------------------------------------------- db.py
\* A Task row as create_task leaves it.
NewTask(sched) ==
    [status |-> "pending", started_at |-> None, completed_at |-> None,
     updated_at |-> 0, plan |-> None, results |-> None, error |-> None,
     retry_count |-> 0, scheduled_for |-> sched]

\* for key, value in data.items(): setattr(task, key, value)
SetAttrs(row, data) ==
    [k \in DOMAIN row |-> IF k \in DOMAIN data THEN data[k] ELSE row[k]]

\* Database.update_task: the columns named in data are overwritten, then a
\* status change stamps started_at / completed_at when still empty;
\* updated_at is the column's onupdate.
update_task(row, data, t) ==
    LET r1 == [SetAttrs(row, data) EXCEPT !.updated_at = t]
    IN  IF "status" \in DOMAIN data
        THEN IF data.status = "running" /\ r1.started_at = None
             THEN [r1 EXCEPT !.started_at = t]
             ELSE IF data.status \in {"completed", "failed"} /\ r1.completed_at = None
                  THEN [r1 EXCEPT !.completed_at = t]
                  ELSE r1
        ELSE r1

\* Database.update_agent
update_agent(row, data) ==
    [k \in DOMAIN row |-> IF k \in DOMAIN data THEN data[k] ELSE row[k]]

\* ------------------------------------------------------------- the broker
Msg(t, n) == [task |-> t, retries |-> n]

\* execute_agent_task.delay(agent_id, task_id)
delay(q, t) == q (+) SetToBag({Msg(t, 0)})

\* ---------------------------------------------------- execute_agent_task
\* One delivery of execute_agent_task(agent_id, task_id).  A step is the run
\* of calls that ends with one write to the database:
\*   set_busy     db.update_agent(busy)
\*   set_running  db.update_task(running, started_at)
\*   plan         Agent(...), agent.initialize(), agent.plan_task(goal),
\*                db.update_task(plan)
\*   complete     agent.execute_plan(...), agent.reflect_on_task(...),
\*                db.update_task(completed, results, reflection, completed_at)
\*   release      memory_manager.add_task_memory(...), db.update_agent(idle)
\* and, in the except handler,
\*   h_fail       db.update_task(failed, error, completed_at)
\*   h_release    memory_manager.add_task_memory(...), db.update_agent(idle)
\* task_data holds the Task's status as db.get_task read it at the start;
\* busied records that this delivery has written status busy; produced is
\* what the try body held in its locals when an exception left it: nothing,
\* the plan, or the plan and the results of execute_plan.
Idle == [pc |-> "idle", task |-> "t1", task_data |-> "pending", busied |-> FALSE,
         produced |-> "none"]

\* Positions inside the try body, after the Agent row was read.
TryPcs == {"set_busy", "set_running", "plan", "complete", "release"}
\* Positions inside the except handler's own try.
HandlerPcs == {"h_fail", "h_release"}

At(w, pc) == run[w].pc = pc

Goto(w, pc) == run' = [run EXCEPT ![w].pc = pc]

\* Start with a busy Agent's message dropped: no retry, no error.
StartDropsWhenBusy(w) ==
    /\ At(w, "idle")
    /\ \E m \in BagToSet(queue) :
        LET rest == queue (-) SetToBag({m})
        IN  IF agents[AgentOf(m.task)].status = "busy"
            THEN /\ queue' = rest
                 /\ UNCHANGED <<run, failed_dispatch, cleanupVars>>
            ELSE /\ queue' = rest
                 /\ run' = [run EXCEPT ![w] = [pc |-> "set_busy", task |-> m.task,
                                               task_data |-> tasks[m.task].status,
                                               busied |-> FALSE, produced |-> "none"]]
                 /\ UNCHANGED failed_dispatch
    /\ UNCHANGED <<agents, tasks, cancelOp, retryOp, schedOp, now, cleanupVars>>

\* Start with the retries of a busy Agent's message used up counted as a
\* failure of the Task.
StartFailsTaskWhenBusy(w) ==
    /\ At(w, "idle")
    /\ \E m \in BagToSet(queue) :
        LET rest == queue (-) SetToBag({m})
        IN  IF agents[AgentOf(m.task)].status = "busy"
            THEN /\ IF m.retries < DispatchMaxRetries
                    THEN /\ queue' = rest (+) SetToBag({Msg(m.task, m.retries + 1)})
                         /\ UNCHANGED <<failed_dispatch, tasks>>
                    ELSE /\ queue' = rest
                         /\ failed_dispatch' = failed_dispatch \cup {m.task}
                         /\ tasks' = [tasks EXCEPT ![m.task] =
                                          update_task(@, [status |-> "failed"], now)]
                 /\ UNCHANGED run
            ELSE /\ queue' = rest
                 /\ run' = [run EXCEPT ![w] = [pc |-> "set_busy", task |-> m.task,
                                               task_data |-> tasks[m.task].status,
                                               busied |-> FALSE, produced |-> "none"]]
                 /\ UNCHANGED <<failed_dispatch, tasks>>
    /\ UNCHANGED <<agents, cancelOp, retryOp, schedOp, now, cleanupVars>>

\* A worker takes a message, reads the Task and the Agent row; a busy Agent
\* makes it raise self.retry(countdown=60, max_retries=10), which re-queues
\* the message or, the retries used up, raises MaxRetriesExceededError.
Start(w) ==
    /\ At(w, "idle")
    /\ \E m \in BagToSet(queue) :
        LET rest == queue (-) SetToBag({m})
        IN  IF agents[AgentOf(m.task)].status = "busy"
            THEN /\ IF m.retries < DispatchMaxRetries
                    THEN /\ queue' = rest (+) SetToBag({Msg(m.task, m.retries + 1)})
                         /\ UNCHANGED failed_dispatch
                    ELSE /\ queue' = rest
                         /\ failed_dispatch' = failed_dispatch \cup {m.task}
                 /\ UNCHANGED run
            ELSE /\ queue' = rest
                 /\ run' = [run EXCEPT ![w] = [pc |-> "set_busy", task |-> m.task,
                                               task_data |-> tasks[m.task].status,
                                               busied |-> FALSE, produced |-> "none"]]
                 /\ UNCHANGED failed_dispatch
    /\ UNCHANGED <<agents, tasks, cancelOp, retryOp, schedOp, now, cleanupVars>>

\* db.update_agent(agent_id, {"status": "busy"})
SetBusy(w) ==
    /\ At(w, "set_busy")
    /\ agents' = [agents EXCEPT ![AgentOf(run[w].task)] =
                      update_agent(@, [status |-> "busy"])]
    /\ run' = [run EXCEPT ![w].pc = "set_running", ![w].busied = TRUE]
    /\ UNCHANGED <<tasks, queue, cancelOp, retryOp, schedOp, now, failed_dispatch, cleanupVars>>

\* db.update_task(task_id, {"status": "running", "started_at": utcnow()})
SetRunning(w) ==
    /\ At(w, "set_running")
    /\ tasks' = [tasks EXCEPT ![run[w].task] =
                     update_task(@, [status |-> "running", started_at |-> now], now)]
    /\ Goto(w, "plan")
    /\ UNCHANGED <<agents, queue, cancelOp, retryOp, schedOp, now, failed_dispatch, cleanupVars>>

\* plan = agent.plan_task(goal); db.update_task(task_id, {"plan": plan})
PlanTask(w) ==
    /\ At(w, "plan")
    /\ tasks' = [tasks EXCEPT ![run[w].task] = update_task(@, [plan |-> 1], now)]
    /\ Goto(w, "complete")
    /\ UNCHANGED <<agents, queue, cancelOp, retryOp, schedOp, now, failed_dispatch, cleanupVars>>

\* results = agent.execute_plan(...); reflection = agent.reflect_on_task(...);
\* db.update_task(task_id, {"status": "completed", "results": results,
\*                          "reflection": reflection, "completed_at": utcnow()})
Complete(w) ==
    /\ At(w, "complete")
    /\ tasks' = [tasks EXCEPT ![run[w].task] =
                     update_task(@, [status |-> "completed", results |-> 1,
                                     completed_at |-> now], now)]
    /\ Goto(w, "release")
    /\ UNCHANGED <<agents, queue, cancelOp, retryOp, schedOp, now, failed_dispatch, cleanupVars>>

\* memory_manager.add_task_memory(..., "task_results", ...);
\* db.update_agent(agent_id, {"status": "idle"}); return
Release(w) ==
    /\ At(w, "release")
    /\ agents' = [agents EXCEPT ![AgentOf(run[w].task)] =
                      update_agent(@, [status |-> "idle"])]
    /\ run' = [run EXCEPT ![w] = Idle]
    /\ UNCHANGED <<tasks, queue, cancelOp, retryOp, schedOp, now, failed_dispatch, cleanupVars>>

\* The locals the try body can hold when a call of the step at pc raises:
\* plan_task has or has not returned at "plan", execute_plan has or has not
\* returned at "complete".
Produced(pc) ==
    IF pc = "plan" THEN {"none", "plan"}
    ELSE IF pc = "complete" THEN {"plan", "results"}
    ELSE IF pc = "release" THEN {"results"}
    ELSE {"none"}

\* except Exception: a call of the step the delivery is at raises before
\* the step's write, and control enters the handler.
Raise(w) ==
    /\ run[w].pc \in TryPcs
    /\ \E p \in Produced(run[w].pc) :
          run' = [run EXCEPT ![w].pc = "h_fail", ![w].produced = p]
    /\ UNCHANGED <<agents, tasks, queue, cancelOp, retryOp, schedOp, now, failed_dispatch, cleanupVars>>

\* handler: db.update_task(task_id, {"status": "failed", "error": str(e),
\*                                   "completed_at": utcnow()})
HandlerFail(w) ==
    /\ At(w, "h_fail")
    /\ tasks' = [tasks EXCEPT ![run[w].task] =
                     update_task(@, [status |-> "failed", error |-> 1,
                                     completed_at |-> now], now)]
    /\ Goto(w, "h_release")
    /\ UNCHANGED <<agents, queue, cancelOp, retryOp, schedOp, now, failed_dispatch, cleanupVars>>

\* handler: memory_manager.add_task_memory(..., "task_error", ...);
\* db.update_agent(agent_id, {"status": "idle"}); return
HandlerRelease(w) ==
    /\ At(w, "h_release")
    /\ agents' = [agents EXCEPT ![AgentOf(run[w].task)] =
                      update_agent(@, [status |-> "idle"])]
    /\ run' = [run EXCEPT ![w] = Idle]
    /\ UNCHANGED <<tasks, queue, cancelOp, retryOp, schedOp, now, failed_dispatch, cleanupVars>>

\* handler: except Exception as update_error: a call of the handler raises
\* before its write, the error is logged and the function returns.
HandlerRaise(w) ==
    /\ run[w].pc \in HandlerPcs
    /\ run' = [run EXCEPT ![w] = Idle]
    /\ UNCHANGED <<agents, tasks, queue, cancelOp, retryOp, schedOp, now, failed_dispatch, cleanupVars>>

execute_agent_task(w) ==
    \/ Start(w) \/ SetBusy(w) \/ SetRunning(w) \/ PlanTask(w) \/ Complete(w)
    \/ Release(w) \/ Raise(w) \/ HandlerFail(w) \/ HandlerRelease(w)
    \/ HandlerRaise(w)

\* The worker process is lost in mid-delivery.  Nothing of the delivery
\* runs any more, its except and finally clauses included; the message was
\* not acknowledged (task_acks_late, task_reject_on_worker_lost) and the
\* broker queues it again.
Crash(w) ==
    /\ crashes < MaxCrashes
    /\ ~At(w, "idle")
    /\ run' = [run EXCEPT ![w] = Idle]
    /\ queue' = delay(queue, run[w].task)
    /\ crashes' = crashes + 1
    /\ UNCHANGED <<agents, tasks, cancelOp, retryOp, schedOp, now, failed_dispatch, cleanupVars>>

\* ------------------------------------------------------------ cancel_task
NoCancel == [pc |-> "idle", task |-> "t1"]

\* task_data = db.get_task(task_id); a completed or failed Task is left
\* alone and the call returns cancelled=False.
CancelRead(t) ==
    /\ cancelOp.pc = "idle"
    /\ tasks[t].status \notin {"completed", "failed"}
    /\ cancelOp' = [pc |-> "write", task |-> t]
    /\ UNCHANGED <<agents, tasks, queue, run, retryOp, schedOp, now, failed_dispatch, cleanupVars>>

\* db.update_task(task_id, {"status": "cancelled", "completed_at": utcnow()});
\* update_task returns None for a row that is no longer there.
CancelWrite ==
    /\ cancelOp.pc = "write"
    /\ tasks' = IF cancelOp.task \in DOMAIN tasks
                THEN [tasks EXCEPT ![cancelOp.task] =
                         update_task(@, [status |-> "cancelled", completed_at |-> now], now)]
                ELSE tasks
    /\ cancelOp' = NoCancel
    /\ UNCHANGED <<agents, queue, run, retryOp, schedOp, now, failed_dispatch, cleanupVars>>

cancel_task == (\E t \in DOMAIN tasks : CancelRead(t)) \/ CancelWrite

\* ----------------------------------------------------- retry_failed_tasks
\* The rows a scan holds: task id -> the retry_count it read, None for a
\* row the query did not return.
NoRows == [t \in DOMAIN tasks |-> None]

\* query: status == "failed" and updated_at >= utcnow() - 24 hours
RetryEligible(row, t) == row.status = "failed" /\ row.updated_at >= t - RetryWindow

RetryScan(s) ==
    /\ retryOp[s] = NoRows
    /\ \E t \in DOMAIN tasks : RetryEligible(tasks[t], now)
    /\ retryOp' = [retryOp EXCEPT ![s] =
                       [t \in DOMAIN tasks |-> IF RetryEligible(tasks[t], now)
                                        THEN tasks[t].retry_count ELSE None]]
    /\ UNCHANGED <<agents, tasks, queue, run, cancelOp, schedOp, now, failed_dispatch, cleanupVars>>

\* if retry_count >= settings.scheduler.max_retries: continue
RetrySkip(s, t) ==
    /\ retryOp[s][t] # None
    /\ retryOp[s][t] >= max_retries
    /\ retryOp' = [retryOp EXCEPT ![s][t] = None]
    /\ UNCHANGED <<agents, tasks, queue, run, cancelOp, schedOp, now, failed_dispatch, cleanupVars>>

\* RetryRequeue with the limit test off by one (retry_count > max_retries).
RetryRequeueOffByOne(s, t) ==
    /\ retryOp[s][t] # None
    /\ retryOp[s][t] <= max_retries
    /\ tasks' = [tasks EXCEPT ![t] =
                     update_task(@, [status |-> "pending", error |-> None,
                                     retry_count |-> retryOp[s][t] + 1], now)]
    /\ queue' = delay(queue, t)
    /\ retryOp' = [retryOp EXCEPT ![s][t] = None]
    /\ UNCHANGED <<agents, run, cancelOp, schedOp, now, failed_dispatch, cleanupVars>>

\* metadata["retry_count"] = retry_count + 1; db.update_task(task.id,
\* {"status": "pending", "error": None, "meta_data": metadata});
\* execute_agent_task.delay(task.agent_id, task.id)
RetryRequeue(s, t) ==
    /\ retryOp[s][t] # None
    /\ retryOp[s][t] < max_retries
    /\ tasks' = [tasks EXCEPT ![t] =
                     update_task(@, [status |-> "pending", error |-> None,
                                     retry_count |-> retryOp[s][t] + 1], now)]
    /\ queue' = delay(queue, t)
    /\ retryOp' = [retryOp EXCEPT ![s][t] = None]
    /\ UNCHANGED <<agents, run, cancelOp, schedOp, now, failed_dispatch, cleanupVars>>

retry_failed_tasks(s) ==
    \/ RetryScan(s)
    \/ \E t \in DOMAIN tasks : RetrySkip(s, t) \/ RetryRequeue(s, t)

\* A scan step with the retried += 1 of line 536 kept per Task over all
\* scans; the count stops at max_retries + 1.
retry_loop(s) ==
    /\ retry_failed_tasks(s)
    /\ retry_enqueued' =
          [t \in DOMAIN tasks |->
              IF CopiesIn(Msg(t, 0), queue') > CopiesIn(Msg(t, 0), queue)
                 /\ retry_enqueued[t] <= max_retries
              THEN retry_enqueued[t] + 1
              ELSE retry_enqueued[t]]

\* ------------------------------------------------ process_scheduled_tasks
\* The rows a promotion scan holds: the set of task ids the query returned.
\* query: status == "pending", scheduled_for is not None, scheduled_for <= now
Due(row, t) ==
    row.status = "pending" /\ row.scheduled_for # None /\ row.scheduled_for <= t

SchedScan(s) ==
    /\ schedOp[s] = {}
    /\ \E t \in DOMAIN tasks : Due(tasks[t], now)
    /\ schedOp' = [schedOp EXCEPT ![s] = {t \in DOMAIN tasks : Due(tasks[t], now)}]
    /\ UNCHANGED <<agents, tasks, queue, run, cancelOp, retryOp, now, failed_dispatch, cleanupVars>>

\* db.update_task(task.id, {"scheduled_for": None});
\* execute_agent_task.delay(task.agent_id, task.id)
SchedPromote(s, t) ==
    /\ t \in schedOp[s]
    /\ tasks' = [tasks EXCEPT ![t] = update_task(@, [scheduled_for |-> None], now)]
    /\ queue' = delay(queue, t)
    /\ schedOp' = [schedOp EXCEPT ![s] = @ \ {t}]
    /\ UNCHANGED <<agents, run, cancelOp, retryOp, now, failed_dispatch, cleanupVars>>

process_scheduled_tasks(s) ==
    SchedScan(s) \/ \E t \in DOMAIN tasks : SchedPromote(s, t)

\* --------------------------------------------- cleanup_old_completed_tasks
NoCleanup == [pc |-> "idle", rows |-> {}]

\* query: status in (completed, cancelled), completed_at is not None,
\* completed_at <= utcnow() - days
Old(row, t) ==
    /\ row.status \in {"completed", "cancelled"}
    /\ row.completed_at # None
    /\ row.completed_at <= t - CleanupDays

\* The record of a Task in the archive file.
ArchiveRecord(t) ==
    [id |-> t, status |-> tasks[t].status, completed_at |-> tasks[t].completed_at]

\* tasks = query.all(); an empty list ends the call.
CleanupQuery ==
    /\ cleanupOp = NoCleanup
    /\ \E t \in DOMAIN tasks : Old(tasks[t], now)
    /\ cleanupOp' = [pc |-> "archive", rows |-> {t \in DOMAIN tasks : Old(tasks[t], now)}]
    /\ UNCHANGED <<agents, tasks, queue, run, cancelOp, retryOp, schedOp, now,
                   failed_dispatch, archive>>

\* settings.db.auto_backup: the archive file is written with one record
\* per Task of the list.
CleanupArchive ==
    /\ cleanupOp.pc = "archive"
    /\ archive' = archive \cup
                      {{ArchiveRecord(t) : t \in cleanupOp.rows \cap DOMAIN tasks}}
    /\ cleanupOp' = [cleanupOp EXCEPT !.pc = "delete"]
    /\ UNCHANGED <<agents, tasks, queue, run, cancelOp, retryOp, schedOp, now,
                   failed_dispatch>>

\* os.makedirs, open or json.dump raises: the except clause of the archive
\* block logs the error and the call goes on to the deletion.
CleanupArchiveRaise ==
    /\ cleanupOp.pc = "archive"
    /\ cleanupOp' = [cleanupOp EXCEPT !.pc = "delete"]
    /\ UNCHANGED <<agents, tasks, queue, run, cancelOp, retryOp, schedOp, now,
                   failed_dispatch, archive>>

\* session.delete(task) for each Task of the list, session.commit()
CleanupDelete ==
    /\ cleanupOp.pc = "delete"
    /\ tasks' = [t \in DOMAIN tasks \ cleanupOp.rows |-> tasks[t]]
    /\ cleanupOp' = NoCleanup
    /\ UNCHANGED <<agents, queue, run, cancelOp, retryOp, schedOp, now,
                   failed_dispatch, archive>>

\* session.commit() raises: the session rolls back, the outer except
\* returns {"deleted": 0, "error": ...}.
CleanupDeleteRaise ==
    /\ cleanupOp.pc = "delete"
    /\ cleanupOp' = NoCleanup
    /\ UNCHANGED <<agents, tasks, queue, run, cancelOp, retryOp, schedOp, now,
                   failed_dispatch, archive>>

cleanup_old_completed_tasks ==
    \/ CleanupQuery
    \/ CleanupArchive
    \/ CleanupArchiveRaise
    \/ CleanupDelete
    \/ CleanupDeleteRaise

\* ------------------------------------------------------------------ clock
Tick ==
    /\ now < MaxTime
    /\ now' = now + 1
    /\ UNCHANGED <<agents, tasks, queue, run, cancelOp, retryOp, schedOp, failed_dispatch, cleanupVars>>

\* --------------------------------------------- Agent.run_task, executor.py
\* The coroutine of Agent.run_task is modelled between its awaits: rt.pc
\* names the call it is suspended in, and one action is the code that runs
\* from the return (or the exception) of that call to the next await.
\*   save0    save_state(), line 126, before the try
\*   context  registry.list_tools() ... get_agent_context(), save_state()
\*   plan     planner.create_plan()
\*   save1    save_state(), line 155
\*   step     execute_tool() or llm.generate_text() of the current step
\*   store    memory_manager.add_memory() of the step's result
\*   save2    save_state(), line 166
\*   reflect  planner.reflect_on_task()
\*   save3    save_state(), line 183
\*   save4    save_state() of the except clause, line 211
\* Agent.cancel_task and the passing of time act while it is suspended.

\* step["tool"]: None, a registered tool, a name the registry lacks.
StepTools == {"none", "web_search", "no_such_tool"}

\* registry.get_tool_names()
registry == {"web_search"}

\* plan["steps"]
Plans == UNION {[1..n -> StepTools] : n \in 0..MaxSteps}

\* ExecutionResult
Result(id, ok, tool) == [step_id |-> id, success |-> ok, tool_used |-> tool]

\* What llm.generate_json gives the planner: it raised, or it returned
\* JSON that is or is not a dict of step dicts, with these steps.
LLMReplies == [raised : BOOLEAN, dict : BOOLEAN, steps : Plans]

\* AgentPlanner._fallback_plan: analyze the goal, search, summarize.
fallback_plan == <<"none", "web_search", "none">>

\* AgentPlanner._normalize_plan: the steps of the reply, or the fallback
\* plan when reading the reply raised.
normalize_plan(reply) == IF reply.dict THEN reply.steps ELSE fallback_plan

\* create_plan that returns the plan it made when storing it failed.
create_plan_ignoring_store(reply, stored) ==
    IF reply.raised THEN fallback_plan ELSE normalize_plan(reply)

\* AgentPlanner.create_plan: the normalized plan once memory_manager has
\* stored it; the except clause returns the fallback plan when
\* generate_json or add_memory raised.
create_plan(reply, stored) ==
    IF reply.raised \/ ~stored THEN fallback_plan ELSE normalize_plan(reply)

\* The record reflect_on_task's except clause returns.
default_reflection == [success |-> FALSE, reasoning |-> "Failed to reflect on task",
                       learning |-> "No learning could be generated due to an error.",
                       next_steps |-> <<>>]

\* The reflection the reasoning call returned.
LLMReflections == [success : BOOLEAN, reasoning : {"llm"}, learning : {"llm"},
                   next_steps : {<<>>}]

NoReflection == [success |-> FALSE, reasoning |-> "", learning |-> "", next_steps |-> <<>>]

\* reflect_on_task that gives no reflection when add_memory raised.
reflect_on_task_unguarded(raised, data, stored) ==
    IF raised THEN default_reflection ELSE IF stored THEN data ELSE NoReflection

\* AgentPlanner.reflect_on_task: the reply of generate_json once
\* memory_manager has stored it, the default record when either raised.
reflect_on_task(raised, data, stored) ==
    IF raised \/ ~stored THEN default_reflection ELSE data

\* No reasoning call is in progress.
NoLLMCall == [pc |-> "idle", caller |-> "create_plan", attempts |-> 0,
              reply |-> [raised |-> FALSE, dict |-> FALSE, steps |-> <<>>],
              plan |-> <<>>]

\* create_plan, _execute_thinking_step or reflect_on_task awaits
\* generate_json / generate_text inside its try: generate() passes the
\* messages to the provider's API, once.  attempts counts the API calls.
generate(caller) ==
    /\ llm_call.pc = "idle"
    /\ llm_call' = [NoLLMCall EXCEPT !.pc = "provider", !.caller = caller,
                                     !.attempts = @ + 1]

\* The API call returns: the caller goes on with the reply, the planner
\* to the plan create_plan makes of it.
ProviderReturns ==
    /\ llm_call.pc = "provider"
    /\ \E reply \in {r \in LLMReplies : ~r.raised}, stored \in BOOLEAN :
          /\ llm_call.caller # "create_plan" => reply.steps = <<>> /\ stored
          /\ llm_call' = [llm_call EXCEPT
                              !.pc = "returned", !.reply = reply,
                              !.plan = IF llm_call.caller = "create_plan"
                                       THEN create_plan(reply, stored) ELSE <<>>]

\* The API call raises: _generate_openai logs and re-raises, generate
\* passes the exception on, and the caller's "except Exception" returns
\* the fallback plan, the failed result or the default reflection.
ProviderRaises ==
    /\ llm_call.pc = "provider"
    /\ LET reply == [llm_call.reply EXCEPT !.raised = TRUE]
       IN  llm_call' = [llm_call EXCEPT
                            !.pc = "degraded", !.reply = reply,
                            !.plan = IF llm_call.caller = "create_plan"
                                     THEN create_plan(reply, TRUE) ELSE <<>>]

\* The caller returns what it made of the call.
CallerReturns ==
    /\ llm_call.pc \in {"returned", "degraded"}
    /\ llm_call' = NoLLMCall

NoTask == [status |-> "none", results |-> <<>>, reflection |-> NoReflection]

\* plan_failed and reflect_failed note that a call inside create_plan,
\* inside reflect_on_task raised.
NoRun == [pc |-> "idle", plan |-> <<>>, stop |-> "none", stopAt |-> None,
          cancelAt |-> None, raised |-> FALSE, plan_failed |-> FALSE,
          reflect_failed |-> FALSE]

\* AgentExecutor.__init__ / AgentExecutor.reset
reset == [results |-> <<>>, cancel |-> FALSE, expired |-> FALSE]

\* LoopHead without the test of the time limit (lines 95-98 left out).
LoopHeadNoTimeLimit(ex, plan) ==
    IF Len(ex.results) = Len(plan) THEN "none"
    ELSE IF ex.cancel THEN "cancel"
    ELSE "go"

\* The head of execute_plan's loop, reached with the results ex.results:
\* the reason to leave the loop, or "go" to run the next step.
LoopHead(ex, plan) ==
    IF Len(ex.results) = Len(plan) THEN "none"
    ELSE IF ex.cancel THEN "cancel"
    ELSE IF ex.expired THEN "timeout"
    ELSE "go"

\* run_task from the loop head on: either the next step is awaited, or
\* execute_plan returns its results, run_task stores them in current_task,
\* sets status reflecting and awaits save_state.
Continue(ex, plan, why) ==
    IF why = "go"
    THEN /\ rt' = [rt EXCEPT !.pc = "step", !.plan = plan]
         /\ UNCHANGED current_task
    ELSE /\ rt' = [rt EXCEPT !.pc = "save2", !.plan = plan, !.stop = why,
                              !.stopAt = Len(ex.results)]
         /\ current_task' = [current_task EXCEPT !.status = "reflecting",
                                                 !.results = ex.results]

\* run_task(goal), lines 103-126: refused unless status is idle.
RunTask ==
    /\ rt.pc = "idle"
    /\ agent_status = "idle"
    /\ agent_status' = "running"
    /\ current_task' = [NoTask EXCEPT !.status = "planning"]
    /\ rt' = [NoRun EXCEPT !.pc = "save0"]
    /\ toolCalls' = {}
    /\ step_memory' = 0
    /\ UNCHANGED executor

\* A run_task that writes its task record before it tests the status.
RunTaskRecordsFirst ==
    /\ agent_status # "idle"
    /\ run_result = "none"
    /\ run_result' = "refused"
    /\ current_task' = [NoTask EXCEPT !.status = "planning"]
    /\ UNCHANGED <<agent_status, executor, rt, toolCalls, step_memory>>

\* run_task(goal), lines 104-110, on an Agent that is not idle: the call
\* returns success False and an error before any assignment.
RunTaskWhileBusy ==
    /\ agent_status # "idle"
    /\ run_result = "none"
    /\ run_result' = "refused"
    /\ UNCHANGED <<agent_status, current_task, executor, rt, toolCalls, step_memory>>

\* The caller has read the returned dictionary.
RunTaskReturned ==
    /\ run_result # "none"
    /\ run_result' = "none"
    /\ UNCHANGED <<agent_status, current_task, executor, rt, toolCalls, step_memory>>

\* save_state() of line 126 returns; the try body starts.
SaveFirst ==
    /\ rt.pc = "save0"
    /\ rt' = [rt EXCEPT !.pc = "context"]
    /\ UNCHANGED <<agent_status, current_task, executor, toolCalls, step_memory>>

\* save_state() of line 126 raises: the exception leaves run_task.
SaveFirstRaise ==
    /\ rt.pc = "save0"
    /\ rt' = NoRun
    /\ UNCHANGED <<agent_status, current_task, executor, toolCalls, step_memory>>

\* lines 133-150: the context is built, the state saved, planning starts.
Prepare ==
    /\ rt.pc = "context"
    /\ current_task' = [current_task EXCEPT !.status = "planning"]
    /\ rt' = [rt EXCEPT !.pc = "plan"]
    /\ UNCHANGED <<agent_status, executor, toolCalls, step_memory>>

\* create_plan returns a plan (it catches its own errors); lines 153-155.
PlanReady ==
    /\ rt.pc = "plan"
    /\ \E reply \in LLMReplies, stored \in BOOLEAN :
          rt' = [rt EXCEPT !.pc = "save1", !.plan = create_plan(reply, stored),
                           !.plan_failed = reply.raised \/ ~reply.dict \/ ~stored]
    /\ current_task' = [current_task EXCEPT !.status = "executing"]
    /\ UNCHANGED <<agent_status, executor, toolCalls, step_memory>>

\* save_state() of line 155 returns and execute_plan starts: reset(),
\* execution_start = time.time(), the loop head before the first step.
StartPlan ==
    /\ rt.pc = "save1"
    /\ executor' = reset
    /\ Continue(reset, rt.plan, LoopHead(reset, rt.plan))
    /\ UNCHANGED <<agent_status, toolCalls, step_memory>>

\* _execute_tool_step / _execute_thinking_step return and the result is
\* appended; add_memory is awaited.  A tool the registry lacks gives a
\* failed result without execute_tool being awaited; a tool or a reasoning
\* call that fails or raises gives a failed result.
StepDone ==
    /\ rt.pc = "step"
    /\ LET i == Len(executor.results) + 1
           tool == rt.plan[i]
       IN  \/ /\ tool # "none"
              /\ tool \notin registry
              /\ executor' = [executor EXCEPT
                                  !.results = Append(@, Result(i, FALSE, tool))]
              /\ UNCHANGED toolCalls
           \/ /\ tool # "none"
              /\ tool \in registry
              /\ toolCalls' = toolCalls \cup {i}
              /\ \E ok \in BOOLEAN :
                    executor' = [executor EXCEPT
                                     !.results = Append(@, Result(i, ok, tool))]
           \/ /\ tool = "none"
              /\ \E ok \in BOOLEAN :
                    executor' = [executor EXCEPT
                                     !.results = Append(@, Result(i, ok, "none"))]
              /\ UNCHANGED toolCalls
    /\ rt' = [rt EXCEPT !.pc = "store"]
    /\ UNCHANGED <<agent_status, current_task, step_memory>>

\* add_memory returns, the result stored: the loop head before the next step.
Stored ==
    /\ rt.pc = "store"
    /\ Continue(executor, rt.plan, LoopHead(executor, rt.plan))
    /\ step_memory' = step_memory + 1
    /\ UNCHANGED <<agent_status, executor, toolCalls>>

\* An executor that catches add_memory's exception inside the loop and
\* goes on to the loop head.
StoreRaiseSwallowed ==
    /\ rt.pc = "store"
    /\ Continue(executor, rt.plan, LoopHead(executor, rt.plan))
    /\ UNCHANGED <<agent_status, executor, toolCalls, step_memory>>

\* add_memory raises: execute_plan's except clause returns the results.
StoreRaise ==
    /\ rt.pc = "store"
    /\ Continue(executor, rt.plan, "error")
    /\ UNCHANGED <<agent_status, executor, toolCalls, step_memory>>

\* save_state() of line 166 returns; reflect_on_task is awaited.
SaveReflecting ==
    /\ rt.pc = "save2"
    /\ rt' = [rt EXCEPT !.pc = "reflect"]
    /\ UNCHANGED <<agent_status, current_task, executor, toolCalls, step_memory>>

\* reflect_on_task returns (it catches its own errors); lines 171-183.
Reflected ==
    /\ rt.pc = "reflect"
    /\ \E raised \in BOOLEAN, data \in LLMReflections, stored \in BOOLEAN :
          /\ current_task' = [current_task EXCEPT
                                  !.status = "completed",
                                  !.reflection = reflect_on_task(raised, data, stored)]
          /\ rt' = [rt EXCEPT !.pc = "save3", !.reflect_failed = raised \/ ~stored]
    /\ agent_status' = "idle"
    /\ UNCHANGED <<executor, toolCalls, step_memory>>

\* save_state() of line 183 returns; run_task returns success.
Return ==
    /\ rt.pc = "save3"
    /\ rt' = NoRun
    /\ UNCHANGED <<agent_status, current_task, executor, toolCalls, step_memory>>

\* except Exception, lines 196-211: an awaited call of the try body raises.
Except ==
    /\ rt.pc \in {"context", "save1", "save2", "save3"}
    /\ current_task' = [current_task EXCEPT !.status = "failed"]
    /\ agent_status' = "idle"
    /\ rt' = [rt EXCEPT !.pc = "save4", !.raised = TRUE]
    /\ UNCHANGED <<executor, toolCalls, step_memory>>

\* save_state() of line 211 returns or raises; run_task ends.
ReturnFailed ==
    /\ rt.pc = "save4"
    /\ rt' = NoRun
    /\ UNCHANGED <<agent_status, current_task, executor, toolCalls, step_memory>>

\* Agent.cancel_task(): refused unless status is running.  rt.cancelAt
\* notes a request that falls between two steps: the number of steps done.
CancelTask ==
    /\ agent_status = "running"
    /\ executor' = [executor EXCEPT !.cancel = TRUE]
    /\ current_task' = IF current_task = NoTask THEN current_task
                       ELSE [current_task EXCEPT !.status = "cancelled"]
    /\ agent_status' = "idle"
    /\ rt' = IF rt.pc = "store" /\ Len(executor.results) < Len(rt.plan)
             THEN [rt EXCEPT !.cancelAt = Len(executor.results)]
             ELSE rt
    /\ UNCHANGED <<toolCalls, step_memory>>

\* time.time() - execution_start passes max_execution_time.
Expire ==
    /\ rt.pc \in {"step", "store"}
    /\ ~executor.expired
    /\ executor' = [executor EXCEPT !.expired = TRUE]
    /\ UNCHANGED <<agent_status, current_task, rt, toolCalls, step_memory>>

run_task ==
    \/ RunTask \/ SaveFirst \/ SaveFirstRaise \/ Prepare \/ PlanReady
    \/ StartPlan \/ StepDone \/ Stored \/ StoreRaise \/ SaveReflecting
    \/ Reflected \/ Return \/ Except \/ ReturnFailed

\* ------------------------------------- scheduler/tasks.py, agent tasks
\* The awaits of run_task after which save_state() has stored the state.
SaveReturns ==
    <<rt.pc, rt'.pc>> \in {<<"save0", "context">>, <<"context", "plan">>,
                           <<"save1", "step">>, <<"save1", "save2">>,
                           <<"save2", "reflect">>, <<"save3", "idle">>,
                           <<"save4", "idle">>}

\* run_agent_task(agent_data, goal): Agent.from_dict, then run_task on that
\* Agent; each save_state() stores the Agent's status of the moment.
run_agent_task ==
    /\ run_task
    /\ saved_status' = IF SaveReturns THEN agent_status ELSE saved_status
    /\ UNCHANGED cancel_result

\* cancel_agent_task(agent_id): the saved state is read, an Agent is built
\* from it by from_dict, with an AgentExecutor of its own, and cancel_task()
\* is called on that Agent: refused unless the restored status is running,
\* else the new executor's event is set and the state saved with status
\* idle.  The Agent that run_agent_task is running is not reached.
cancel_agent_task ==
    /\ cancel_result = "none"
    /\ IF saved_status = "running"
       THEN /\ cancel_result' = "cancelled"
            /\ saved_status' = "idle"
       ELSE /\ cancel_result' = "refused"
            /\ UNCHANGED saved_status
    /\ UNCHANGED <<agent_status, current_task, executor, rt, toolCalls, step_memory>>

\* The caller has read what cancel_agent_task returned.
CancelReturned ==
    /\ cancel_result # "none"
    /\ cancel_result' = "none"
    /\ UNCHANGED <<saved_status, agent_status, current_task, executor, rt, toolCalls, step_memory>>

\* ------------------------------------------- memory/memory_manager.py
\* The MemoryManager over its two stores.  An entry is its id and the
\* task_id of its metadata; the namespace is the collection it is put in.
\* Redis is up: RedisStore.get/set/delete do what they are called for,
\* as far as the value given to set can be encoded.
\* ChromaVectorStore.add and add_batch may raise; the other calls of the
\* vector store catch their errors.

\* f"conversation:{agent_id}", f"task_memory:{agent_id}"
Namespaces == {"conversation:a1", "task_memory:a1"}

Entry(i, k) == [id |-> i, task |-> k]

Entries == {Entry(i, k) : i \in 1..MaxEntries, k \in Tasks}

\* search(limit=...): the default and a smaller one.
Limits == {1, 5}

\* The md5 of f"{query}:{namespace}:{limit}:{json.dumps(filters or {})}",
\* for the one query text and the one filter the model searches with.
cache_key(ns, limit) == <<ns, limit>>

CacheKeys == {cache_key(ns, l) : ns \in Namespaces, l \in Limits}

\* The ids of the `limit` best matches: the vector index ranks its entries,
\* here by id.
Top(ids, limit) == {i \in ids : Cardinality({j \in ids : j < i}) < limit}

\* vector_store.search(query, limit, namespace, ...)
IndexSearch(ns, limit) == Top({e.id : e \in vector_store[ns]}, limit)

\* No list: the key is not in Redis.
NoList == {None}

NoConv == Entry(None, "t1")

NoSearch == [pc |-> "idle", ns |-> "conversation:a1", limit |-> 5, hit |-> FALSE]

NoLoop == [pc |-> "sleep", todo |-> {}, ns |-> "conversation:a1", batch |-> <<>>,
           queued |-> [ns \in Namespaces |-> {}]]

\* The entries of a sequence of queued items.
Range(seq) == {seq[i] : i \in DOMAIN seq}

\* redis_store.set(f"memory:{namespace}:{id}", entry.model_dump()) for each
\* of the entries: the dump holds created_at as a datetime, json.dumps in
\* RedisStore.set raises TypeError on it, set logs the error and returns
\* False.  No memory: key is written.
redis_set(store, ns, entries) == store

\* MemoryManager.get(entry_id, namespace): Redis first, then the index.
Get(i, ns) ==
    IF \E e \in redis_memory[ns] : e.id = i
    THEN CHOOSE e \in redis_memory[ns] : e.id = i
    ELSE IF \E e \in vector_store[ns] : e.id = i
         THEN CHOOSE e \in vector_store[ns] : e.id = i
         ELSE Entry(None, "t1")

\* queue_for_batch(data, metadata, namespace): a new id, the item appended
\* to the namespace's list, which is made when the namespace is new.
queue_for_batch(ns, k) ==
    /\ next_id <= MaxEntries
    /\ batch_queue' = [n \in DOMAIN batch_queue \cup {ns} |->
                          IF n = ns
                          THEN Append(IF ns \in DOMAIN batch_queue
                                      THEN batch_queue[ns] ELSE <<>>,
                                      Entry(next_id, k))
                          ELSE batch_queue[n]]
    /\ next_id' = next_id + 1
    /\ UNCHANGED <<vector_store, redis_memory, search_cache, task_memory_cache,
                   batch_loop, search_op, conv_op, last_result, deleted_entries>>

\* _batch_processing_loop: asyncio.sleep(5) returns and the loop takes
\* list(self._batch_queue.items()).  batch_loop.queued notes what was
\* queued at that moment.
LoopWake ==
    /\ batch_loop.pc = "sleep"
    /\ batch_loop' = [NoLoop EXCEPT
                         !.pc = "iter", !.todo = DOMAIN batch_queue,
                         !.queued = [ns \in Namespaces |->
                                        IF ns \in DOMAIN batch_queue
                                        THEN Range(batch_queue[ns]) ELSE {}]]
    /\ UNCHANGED <<vector_store, redis_memory, search_cache, batch_queue,
                   task_memory_cache, next_id, search_op, conv_op, last_result, deleted_entries>>

\* The loop body for the next namespace: an empty list is passed over, a
\* filled one is copied, replaced by [] and given to add_batch.
LoopFlush ==
    /\ batch_loop.pc = "iter"
    /\ \E ns \in batch_loop.todo :
        IF batch_queue[ns] = <<>>
        THEN /\ batch_loop' = [batch_loop EXCEPT !.todo = @ \ {ns}]
             /\ UNCHANGED batch_queue
        ELSE /\ batch_loop' = [batch_loop EXCEPT !.pc = "add_batch", !.todo = @ \ {ns},
                                                 !.ns = ns, !.batch = batch_queue[ns]]
             /\ batch_queue' = [batch_queue EXCEPT ![ns] = <<>>]
    /\ UNCHANGED <<vector_store, redis_memory, search_cache, task_memory_cache,
                   next_id, search_op, conv_op, last_result, deleted_entries>>

\* The loop is through its list: it sleeps again.
LoopSleep ==
    /\ batch_loop.pc = "iter"
    /\ batch_loop.todo = {}
    /\ batch_loop' = [batch_loop EXCEPT !.pc = "sleep"]
    /\ UNCHANGED <<vector_store, redis_memory, search_cache, batch_queue,
                   task_memory_cache, next_id, search_op, conv_op, last_result, deleted_entries>>

\* add_batch returns: every item set in Redis, all added to the index.
AddBatchDone ==
    /\ batch_loop.pc = "add_batch"
    /\ redis_memory' = redis_set(redis_memory, batch_loop.ns, Range(batch_loop.batch))
    /\ vector_store' = [vector_store EXCEPT ![batch_loop.ns] = @ \cup Range(batch_loop.batch)]
    /\ batch_loop' = [batch_loop EXCEPT !.pc = "iter", !.batch = <<>>]
    /\ UNCHANGED <<search_cache, batch_queue, task_memory_cache, next_id,
                   search_op, conv_op, last_result, deleted_entries>>

\* vector_store.add_batch raises after the items were set in Redis: the
\* loop's except clause logs the error and the loop sleeps again.
AddBatchRaise ==
    /\ batch_loop.pc = "add_batch"
    /\ redis_memory' = redis_set(redis_memory, batch_loop.ns, Range(batch_loop.batch))
    /\ batch_loop' = [batch_loop EXCEPT !.pc = "sleep", !.batch = <<>>]
    /\ UNCHANGED <<vector_store, search_cache, batch_queue, task_memory_cache,
                   next_id, search_op, conv_op, last_result, deleted_entries>>

batch_processing_loop ==
    LoopWake \/ LoopFlush \/ LoopSleep \/ AddBatchDone \/ AddBatchRaise

\* No add_batch call from outside the loop is in progress.
NoCall == [pc |-> "idle", ns |-> "conversation:a1", batch |-> {}]

\* self._memory_locks[namespace]: who is inside "async with" for the
\* namespace.  The loop, having called add_batch, holds the lock unless the
\* outside call holds it, and gets it when that call leaves.
memory_locks(ns) ==
    IF batch_call.pc = "locked" /\ batch_call.ns = ns THEN "call"
    ELSE IF batch_loop.pc = "add_batch" /\ batch_loop.ns = ns THEN "loop"
    ELSE "free"

\* add_batch(items, namespace) called from outside the loop gets the
\* namespace's lock, line 165.
AddBatchLocked(ns, k) ==
    /\ batch_call.pc = "idle"
    /\ next_id <= MaxEntries
    /\ memory_locks(ns) = "free"
    /\ batch_call' = [pc |-> "locked", ns |-> ns, batch |-> {Entry(next_id, k)}]
    /\ next_id' = next_id + 1
    /\ UNCHANGED <<vector_store, redis_memory, search_cache, batch_queue,
                   task_memory_cache, batch_loop, search_op, conv_op, last_result,
                   deleted_entries>>

\* The outside call's Redis writes and bulk insert are done; it leaves
\* "async with" and returns the ids.
AddBatchReturn ==
    /\ batch_call.pc = "locked"
    /\ redis_memory' = redis_set(redis_memory, batch_call.ns, batch_call.batch)
    /\ vector_store' = [vector_store EXCEPT ![batch_call.ns] = @ \cup batch_call.batch]
    /\ batch_call' = NoCall
    /\ UNCHANGED <<search_cache, batch_queue, task_memory_cache, next_id, batch_loop,
                   search_op, conv_op, last_result, deleted_entries>>

\* The loop next to an outside call: the add_batch the loop awaits goes on
\* only with the namespace's lock.
locked_batch_loop ==
    /\ batch_loop.pc = "add_batch" => memory_locks(batch_loop.ns) = "loop"
    /\ batch_processing_loop
    /\ UNCHANGED batch_call

\* "if cached_results:" asked of a list that holds something.
cached_results_nonempty(cell) == cell # NoList /\ cell # {}

\* "if cached_results:", line 256: redis_store.get gave a string and the
\* string is not empty.  json.dumps of a list is never the empty string:
\* an empty list is cached as "[]".
cached_results(cell) == cell # NoList

\* search(), lines 244-258: the cache is asked first; a cached list is
\* returned as it is.  last_result notes the list each call returned.
SearchStart(ns, limit) ==
    /\ search_op.pc = "idle"
    /\ LET key == cache_key(ns, limit)
       IN  IF cached_results(search_cache[key])
           THEN /\ search_op' = [pc |-> "idle", ns |-> ns, limit |-> limit, hit |-> TRUE]
                /\ last_result' = [last_result EXCEPT ![key] = search_cache[key]]
           ELSE /\ search_op' = [pc |-> "vector_store", ns |-> ns, limit |-> limit,
                                 hit |-> FALSE]
                /\ UNCHANGED last_result
    /\ UNCHANGED <<vector_store, redis_memory, search_cache, batch_queue,
                   task_memory_cache, next_id, batch_loop, conv_op, deleted_entries>>

\* search(), lines 260-296: vector_store.search returns its matches, or []
\* when it failed; the list is cached under the key and returned.
SearchIndex ==
    /\ search_op.pc = "vector_store"
    /\ LET key == cache_key(search_op.ns, search_op.limit)
       IN  \E results \in {IndexSearch(search_op.ns, search_op.limit), {}} :
              /\ search_cache' = [search_cache EXCEPT ![key] = results]
              /\ last_result' = [last_result EXCEPT ![key] = results]
    /\ search_op' = [search_op EXCEPT !.pc = "idle"]
    /\ UNCHANGED <<vector_store, redis_memory, batch_queue, task_memory_cache,
                   next_id, batch_loop, conv_op, deleted_entries>>

search == (\E ns \in Namespaces, limit \in Limits : SearchStart(ns, limit)) \/ SearchIndex

\* score = 1.0 - distance of the entry's text to the query, line 209 of
\* vector_store.py: the texts stored under odd ids are far from the one
\* query text (score 0), those under even ids match it (score 1).
score(i) == (i + 1) % 2

\* search(query, limit, namespace, filters, min_score), lines 244-258: the
\* cache key is made of query, namespace, limit and filters; a cached list
\* is returned as it is.
SearchScoredStart(ns, limit, m) ==
    /\ SearchStart(ns, limit)
    /\ scored' = [min_score |-> m,
                  results |-> IF cached_results(search_cache[cache_key(ns, limit)])
                              THEN search_cache[cache_key(ns, limit)] ELSE NoList]

\* search(), lines 260-296, with vector_store.search of lines 180-230:
\* of the 2 * limit nearest entries those with score < min_score are
\* skipped and the first `limit` of the rest returned, or [] when the
\* index failed; the list is cached under the key and returned.
SearchScoredIndex ==
    /\ search_op.pc = "vector_store"
    /\ LET key == cache_key(search_op.ns, search_op.limit)
           near == Top({e.id : e \in vector_store[search_op.ns]}, 2 * search_op.limit)
           found == Top({i \in near : score(i) >= scored.min_score}, search_op.limit)
       IN  \E results \in {found, {}} :
              /\ search_cache' = [search_cache EXCEPT ![key] = results]
              /\ last_result' = [last_result EXCEPT ![key] = results]
              /\ scored' = [scored EXCEPT !.results = results]
    /\ search_op' = [search_op EXCEPT !.pc = "idle"]
    /\ UNCHANGED <<vector_store, redis_memory, batch_queue, task_memory_cache,
                   next_id, batch_loop, conv_op, deleted_entries>>

\* add_conversation(agent_id, task_id, ...) up to the index write of add().
ConvAdd(k) ==
    /\ conv_op = NoConv
    /\ next_id <= MaxEntries
    /\ vector_store' = [vector_store EXCEPT !["conversation:a1"] = @ \cup {Entry(next_id, k)}]
    /\ conv_op' = Entry(next_id, k)
    /\ next_id' = next_id + 1
    /\ UNCHANGED <<redis_memory, search_cache, batch_queue, task_memory_cache,
                   batch_loop, search_op, last_result, deleted_entries>>

\* add_conversation from the Redis write of add() on: the message is
\* appended to the task's list in _task_memory_cache.
ConvCache ==
    /\ conv_op # NoConv
    /\ redis_memory' = redis_set(redis_memory, "conversation:a1", {conv_op})
    /\ task_memory_cache' =
          [k \in DOMAIN task_memory_cache \cup {conv_op.task} |->
              IF k = conv_op.task
              THEN (IF k \in DOMAIN task_memory_cache THEN task_memory_cache[k] ELSE {})
                       \cup {conv_op.id}
              ELSE task_memory_cache[k]]
    /\ conv_op' = NoConv
    /\ UNCHANGED <<vector_store, search_cache, batch_queue, next_id, batch_loop,
                   search_op, last_result, deleted_entries>>

add_conversation == (\E k \in Tasks : ConvAdd(k)) \/ ConvCache

\* get_conversation_history: a task without a list in _task_memory_cache
\* gets the one search_by_metadata returns.
get_conversation_history(k) ==
    /\ k \notin DOMAIN task_memory_cache
    /\ task_memory_cache' =
          [j \in DOMAIN task_memory_cache \cup {k} |->
              IF j = k THEN {e.id : e \in {x \in vector_store["conversation:a1"] : x.task = k}}
              ELSE task_memory_cache[j]]
    /\ UNCHANGED <<vector_store, redis_memory, search_cache, batch_queue, next_id,
                   batch_loop, search_op, conv_op, last_result, deleted_entries>>

\* What get_conversation_history(agent_id, task_id) returns, as the ids of
\* the messages (ids grow with the timestamps): the task's list in
\* _task_memory_cache when it has one, else the metadata scan of the index.
conversation_history(k) ==
    IF k \in DOMAIN task_memory_cache
    THEN task_memory_cache[k]
    ELSE {e.id : e \in {x \in vector_store["conversation:a1"] : x.task = k}}

\* The process is restarted: a new MemoryManager with empty queues and an
\* empty _task_memory_cache over the index and the Redis that were there;
\* calls in progress are gone.
Restart ==
    /\ task_memory_cache' = << >>
    /\ batch_queue' = << >>
    /\ batch_loop' = NoLoop
    /\ search_op' = NoSearch
    /\ conv_op' = NoConv
    /\ UNCHANGED <<vector_store, redis_memory, search_cache, next_id, last_result,
                   deleted_entries>>

\* add_task_memory -> add(): the index write, then the Redis write.
add_task_memory(k) ==
    /\ next_id <= MaxEntries
    /\ vector_store' = [vector_store EXCEPT !["task_memory:a1"] = @ \cup {Entry(next_id, k)}]
    /\ redis_memory' = redis_set(redis_memory, "task_memory:a1", {Entry(next_id, k)})
    /\ next_id' = next_id + 1
    /\ UNCHANGED <<search_cache, batch_queue, task_memory_cache, batch_loop,
                   search_op, conv_op, last_result, deleted_entries>>

\* vector_store.delete_by_metadata(filters, namespace): True with the
\* matching documents deleted, False when the index failed.
delete_by_metadata(ns, k, deleted) ==
    /\ vector_store' = IF deleted
                       THEN [vector_store EXCEPT ![ns] = {e \in @ : e.task # k}]
                       ELSE vector_store
    /\ deleted_entries' = IF deleted
                          THEN deleted_entries \cup {e \in vector_store[ns] : e.task = k}
                          ELSE deleted_entries

\* delete_conversation(agent_id, task_id)
delete_conversation(k, deleted) ==
    /\ delete_by_metadata("conversation:a1", k, deleted)
    /\ task_memory_cache' = [j \in DOMAIN task_memory_cache \ {k} |-> task_memory_cache[j]]
    /\ UNCHANGED <<redis_memory, search_cache, batch_queue, next_id, batch_loop,
                   search_op, conv_op, last_result>>

\* delete_task_memory(agent_id, task_id)
delete_task_memory(k, deleted) ==
    /\ delete_by_metadata("task_memory:a1", k, deleted)
    /\ UNCHANGED <<redis_memory, search_cache, batch_queue, task_memory_cache,
                   next_id, batch_loop, search_op, conv_op, last_result>>

\* Agent.delete(), run by the delete_agent task on the Agent restored from
\* its saved state: delete_agent_memories(self.id) deletes every entry of
\* the agent (all entries here are a1's), or fails and deletes nothing.
\* The Agent's status is not looked at.
AgentDelete(deleted) ==
    /\ vector_store' = IF deleted THEN [ns \in Namespaces |-> {}] ELSE vector_store
    /\ UNCHANGED <<redis_memory, search_cache, batch_queue, task_memory_cache,
                   next_id, batch_loop, search_op, conv_op, last_result, deleted_entries>>

\* Redis drops a cached search list whose ex=cache_ttl_seconds has passed.
CacheExpire(key) ==
    /\ search_cache[key] # NoList
    /\ search_cache' = [search_cache EXCEPT ![key] = NoList]
    /\ UNCHANGED <<vector_store, redis_memory, batch_queue, task_memory_cache,
                   next_id, batch_loop, search_op, conv_op, last_result, deleted_entries>>

\* ------------------------------------------------------------------- spec
\* The scans of one kind that can be running at a time: beat sends a scan
\* every interval, whether the one before has returned or not, and the pool
\* has worker_concurrency workers to run them.
Scanners == {"s1", "s2"}

InitAgent ==
    /\ agent_status = "idle"
    /\ current_task = NoTask
    /\ executor = reset
    /\ rt = NoRun
    /\ toolCalls = {}
    /\ step_memory = 0

\* MemoryManager.__init__ over empty stores.
InitMemory ==
    /\ vector_store = [ns \in Namespaces |-> {}]
    /\ redis_memory = [ns \in Namespaces |-> {}]
    /\ search_cache = [key \in CacheKeys |-> NoList]
    /\ batch_queue = << >>
    /\ task_memory_cache = << >>
    /\ next_id = 1
    /\ batch_loop = NoLoop
    /\ search_op = NoSearch
    /\ conv_op = NoConv
    /\ last_result = [key \in CacheKeys |-> NoList]
    /\ deleted_entries = {}

\* schedule_task: a Task is created pending, either queued at once or given
\* a scheduled_for time and left to the promotion scan.
InitWith(rows) ==
    /\ agents = [a \in Agents |-> [status |-> "idle"]]
    /\ \E sched \in [rows -> {None, 1}] :
        /\ tasks = [t \in rows |-> NewTask(sched[t])]
        /\ queue = SetToBag({Msg(t, 0) : t \in {u \in rows : sched[u] = None}})
    /\ run = [w \in Workers |-> Idle]
    /\ cancelOp = NoCancel
    /\ retryOp = [s \in Scanners |-> [t \in rows |-> None]]
    /\ schedOp = [s \in Scanners |-> {}]
    /\ now = 0
    /\ failed_dispatch = {}
    /\ cleanupOp = NoCleanup
    /\ archive = {}
    /\ InitAgent
    /\ InitMemory
    /\ run_result = "none"
    /\ saved_status = "none"
    /\ cancel_result = "none"
    /\ retry_enqueued = [t \in rows |-> 0]
    /\ crashes = 0
    /\ batch_call = NoCall
    /\ llm_call = NoLLMCall
    /\ scored = [min_score |-> 0, results |-> NoList]

\* One Task of one Agent, one worker, and every operation of the engine.
Init == InitWith({"t1"})

Next ==
    \/ execute_agent_task("w1") /\ UNCHANGED <<agentVars, memVars, callVars>>
    \/ cancel_task /\ UNCHANGED <<agentVars, memVars, callVars>>
    \/ retry_failed_tasks("s1") /\ UNCHANGED <<agentVars, memVars, callVars>>
    \/ process_scheduled_tasks("s1") /\ UNCHANGED <<agentVars, memVars, callVars>>
    \/ Tick /\ UNCHANGED <<agentVars, memVars, callVars>>

Spec == Init /\ [][Next]_vars

\* One Task run, failed and retried as the clock advances.
NextRetry ==
    \/ execute_agent_task("w1") /\ UNCHANGED <<agentVars, memVars, callVars>>
    \/ retry_failed_tasks("s1") /\ UNCHANGED <<agentVars, memVars, callVars>>
    \/ Tick /\ UNCHANGED <<agentVars, memVars, callVars>>

SpecRetry == Init /\ [][NextRetry]_vars

\* One Task run, failed and retried by scans that may overlap.
NextRetryRace ==
    \/ execute_agent_task("w1") /\ UNCHANGED <<agentVars, memVars, callVars>>
    \/ (\E s \in Scanners : retry_loop(s))
          /\ UNCHANGED <<agentVars, memVars, run_result, cancelVars, crashes, batch_call, llm_call, scored>>
    \/ Tick /\ UNCHANGED <<agentVars, memVars, callVars>>

SpecRetryRace == Init /\ [][NextRetryRace]_vars

\* One Task delivered by a worker that may be lost; the worker pool keeps
\* running, so a delivery that can go on eventually does.
NextCrash ==
    \/ execute_agent_task("w1") /\ UNCHANGED <<agentVars, memVars, callVars>>
    \/ Crash("w1") /\ UNCHANGED <<agentVars, memVars, run_result, cancelVars, retry_enqueued, batch_call, llm_call, scored>>
    \/ Tick /\ UNCHANGED <<agentVars, memVars, callVars>>

SpecCrash ==
    Init /\ [][NextCrash]_vars
         /\ WF_vars(execute_agent_task("w1") /\ UNCHANGED <<agentVars, memVars, callVars>>)

\* Two Tasks of one Agent, both workers of the pool delivering at once.
InitRace == InitWith(Tasks)

NextRace == (\E w \in Workers : execute_agent_task(w)) /\ UNCHANGED <<agentVars, memVars, callVars>>

SpecRace == InitRace /\ [][NextRace]_vars

\* The same, with the worker pool running: a worker that can take a message
\* or continue its delivery eventually does.
SpecDispatch ==
    InitRace /\ [][NextRace]_vars
             /\ \A w \in Workers : WF_vars(execute_agent_task(w) /\ UNCHANGED <<agentVars, memVars, callVars>>)

\* Two Tasks, scheduled or queued, promotion scans that may overlap, and a
\* worker delivering what is queued.
NextSched ==
    \/ (\E s \in Scanners : process_scheduled_tasks(s)) /\ UNCHANGED <<agentVars, memVars, callVars>>
    \/ execute_agent_task("w1") /\ UNCHANGED <<agentVars, memVars, callVars>>
    \/ Tick /\ UNCHANGED <<agentVars, memVars, callVars>>

SpecSched == InitRace /\ [][NextSched]_vars

\* Two Tasks cancelled as the clock advances, and the hourly cleanup.
NextCleanup ==
    \/ cancel_task /\ UNCHANGED <<agentVars, memVars, callVars>>
    \/ cleanup_old_completed_tasks /\ UNCHANGED <<agentVars, memVars, callVars>>
    \/ Tick /\ UNCHANGED <<agentVars, memVars, callVars>>

SpecCleanup == InitRace /\ [][NextCleanup]_vars

\* The in-process Agent: run_task calls, cancel_task, the time limit.
NextAgent ==
    \/ run_task /\ UNCHANGED <<engineVars, memVars, callVars>>
    \/ CancelTask /\ UNCHANGED <<engineVars, memVars, callVars>>
    \/ Expire /\ UNCHANGED <<engineVars, memVars, callVars>>

\* No Task rows: the Agent object is used on its own.
InitAgentOnly == InitWith({})

SpecAgent == InitAgentOnly /\ [][NextAgent]_vars

\* The same Agent, with further run_task calls arriving while it is busy.
NextAgentBusy ==
    \/ run_task /\ UNCHANGED <<engineVars, memVars, callVars>>
    \/ CancelTask /\ UNCHANGED <<engineVars, memVars, callVars>>
    \/ Expire /\ UNCHANGED <<engineVars, memVars, callVars>>
    \/ RunTaskWhileBusy /\ UNCHANGED <<engineVars, memVars, cancelVars, retry_enqueued, crashes, batch_call, llm_call, scored>>
    \/ RunTaskReturned /\ UNCHANGED <<engineVars, memVars, cancelVars, retry_enqueued, crashes, batch_call, llm_call, scored>>

SpecAgentBusy == InitAgentOnly /\ [][NextAgentBusy]_vars

\* The Agent run by the run_agent_task task of one worker while
\* cancel_agent_task tasks are run by another.
NextAgentTasks ==
    \/ run_agent_task /\ UNCHANGED <<engineVars, memVars, run_result, retry_enqueued, crashes, batch_call, llm_call, scored>>
    \/ Expire /\ UNCHANGED <<engineVars, memVars, callVars>>
    \/ cancel_agent_task /\ UNCHANGED <<engineVars, memVars, run_result, retry_enqueued, crashes, batch_call, llm_call, scored>>
    \/ CancelReturned /\ UNCHANGED <<engineVars, memVars, run_result, retry_enqueued, crashes, batch_call, llm_call, scored>>

SpecAgentTasks == InitAgentOnly /\ [][NextAgentTasks]_vars

\* The in-process Agent running tasks while task memories are written and
\* the Agent is deleted through the API.
NextAgentDelete ==
    \/ run_task /\ UNCHANGED <<engineVars, memVars, callVars>>
    \/ CancelTask /\ UNCHANGED <<engineVars, memVars, callVars>>
    \/ (\E k \in Tasks : add_task_memory(k)) /\ UNCHANGED <<engineVars, agentVars, callVars>>
    \/ (\E deleted \in BOOLEAN : AgentDelete(deleted)) /\ UNCHANGED <<engineVars, agentVars, callVars>>

SpecAgentDelete == InitAgentOnly /\ [][NextAgentDelete]_vars

\* The engine and the Agent object stand still while the memory manager
\* is used on its own.
MemoryOnly(A) == A /\ UNCHANGED <<engineVars, agentVars, callVars>>

\* Batched writes: writers queue items, the batch loop flushes, searches run.
NextBatch ==
    \/ MemoryOnly(\E ns \in Namespaces, k \in Tasks : queue_for_batch(ns, k))
    \/ MemoryOnly(batch_processing_loop)
    \/ MemoryOnly(search)

SpecBatch == InitAgentOnly /\ [][NextBatch]_vars

\* Batched writes next to add_batch calls made from outside the loop.
NextLocks ==
    \/ (\E ns \in Namespaces, k \in Tasks : queue_for_batch(ns, k))
          /\ UNCHANGED <<engineVars, agentVars, callVars>>
    \/ locked_batch_loop
          /\ UNCHANGED <<engineVars, agentVars, run_result, cancelVars, retry_enqueued, crashes, llm_call, scored>>
    \/ (\E ns \in Namespaces, k \in Tasks : AddBatchLocked(ns, k))
          /\ UNCHANGED <<engineVars, agentVars, run_result, cancelVars, retry_enqueued, crashes, llm_call, scored>>
    \/ AddBatchReturn
          /\ UNCHANGED <<engineVars, agentVars, run_result, cancelVars, retry_enqueued, crashes, llm_call, scored>>

SpecLocks == InitAgentOnly /\ [][NextLocks]_vars

\* Cached searches: entries are added, searches run, cached lists expire.
NextSearch ==
    \/ MemoryOnly(\E k \in Tasks : add_task_memory(k))
    \/ MemoryOnly(add_conversation)
    \/ MemoryOnly(search)
    \/ MemoryOnly(\E key \in CacheKeys : CacheExpire(key))

SpecSearch == InitAgentOnly /\ [][NextSearch]_vars

\* Deletes: conversations and task memories are added, read and deleted.
NextDelete ==
    \/ MemoryOnly(add_conversation)
    \/ MemoryOnly(\E k \in Tasks : get_conversation_history(k))
    \/ MemoryOnly(\E k \in Tasks : add_task_memory(k))
    \/ MemoryOnly(\E k \in Tasks, deleted \in BOOLEAN : delete_conversation(k, deleted))
    \/ MemoryOnly(\E k \in Tasks, deleted \in BOOLEAN : delete_task_memory(k, deleted))

SpecDelete == InitAgentOnly /\ [][NextDelete]_vars

\* Conversations added, read and deleted over process restarts.
NextRestart ==
    \/ MemoryOnly(add_conversation)
    \/ MemoryOnly(\E k \in Tasks : get_conversation_history(k))
    \/ MemoryOnly(\E k \in Tasks, deleted \in BOOLEAN : delete_conversation(k, deleted))
    \/ MemoryOnly(Restart)

SpecRestart == InitAgentOnly /\ [][NextRestart]_vars

\* Cached searches with a minimum score: entries are added, searches run,
\* cached lists expire.
NextScored ==
    \/ MemoryOnly(\E k \in Tasks : add_task_memory(k))
    \/ (\E ns \in Namespaces, limit \in Limits, m \in {0, 1} : SearchScoredStart(ns, limit, m))
          /\ UNCHANGED <<engineVars, agentVars, run_result, cancelVars, retry_enqueued, crashes, batch_call, llm_call>>
    \/ SearchScoredIndex
          /\ UNCHANGED <<engineVars, agentVars, run_result, cancelVars, retry_enqueued, crashes, batch_call, llm_call>>
    \/ MemoryOnly(\E key \in CacheKeys : CacheExpire(key))

SpecScored == InitAgentOnly /\ [][NextScored]_vars

\* The reasoning calls of the planner and the executor, one at a time.
NextReasoning ==
    \/ (\E caller \in {"create_plan", "thinking_step", "reflect_on_task"} : generate(caller))
          /\ UNCHANGED <<engineVars, agentVars, memVars, run_result, cancelVars, retry_enqueued, crashes, batch_call, scored>>
    \/ ProviderReturns
          /\ UNCHANGED <<engineVars, agentVars, memVars, run_result, cancelVars, retry_enqueued, crashes, batch_call, scored>>
    \/ ProviderRaises
          /\ UNCHANGED <<engineVars, agentVars, memVars, run_result, cancelVars, retry_enqueued, crashes, batch_call, scored>>
    \/ CallerReturns
          /\ UNCHANGED <<engineVars, agentVars, memVars, run_result, cancelVars, retry_enqueued, crashes, batch_call, scored>>

SpecReasoning == InitAgentOnly /\ [][NextReasoning]_vars

\* ----------------------------------------------------------------- claims
Terminal == {"completed", "failed", "cancelled"}

\* w takes the step that ends its delivery.
Ends(w) == run[w].pc # "idle" /\ run'[w].pc = "idle"

\* C1: whenever a delivery of execute_agent_task that wrote status busy
\* ends, by success or by any exception, the Agent's status is idle.
C1_AgentReleasedWhenRunEnds ==
    [][\A w \in Workers :
          (Ends(w) /\ run[w].busied)
              => agents'[AgentOf(run[w].task)].status = "idle"]_vars

\* C2: no two Tasks of the same Agent are running at the same time.
C2_OneRunningTaskPerAgent ==
    \A t, u \in DOMAIN tasks :
        (t # u /\ AgentOf(t) = AgentOf(u) /\ tasks[t].status = "running")
            => tasks[u].status # "running"

\* C3: a delivery for a Task that db.get_task read as completed, failed or
\* cancelled changes neither the Task row nor the Agent row.
C3_TerminalRedeliveryIsNoOp ==
    [][\A w \in Workers :
          (run[w].pc # "idle" /\ run'[w] # run[w] /\ run[w].task_data \in Terminal)
              => /\ tasks'[run[w].task] = tasks[run[w].task]
                 /\ agents' = agents]_vars

\* C4: completed_at is set exactly when the status is completed, failed or
\* cancelled.
C4_CompletedAtIffTerminal ==
    \A t \in DOMAIN tasks :
        (tasks[t].completed_at # None) <=> (tasks[t].status \in Terminal)

\* C5: started_at and completed_at, once set, never change.
C5_TimestampsWrittenOnce ==
    [][\A t \in DOMAIN tasks :
          /\ tasks[t].started_at # None => tasks'[t].started_at = tasks[t].started_at
          /\ tasks[t].completed_at # None
                => tasks'[t].completed_at = tasks[t].completed_at]_vars

\* The scan s handles row t in this step.
Handles(s, t) == retryOp[s][t] # None /\ retryOp'[s][t] = None

\* The messages for Task t that wait in the broker.
Queued(q, t) == CopiesIn(Msg(t, 0), q)

C6_CancelBetweenSteps ==
    (rt.pc = "save3" /\ rt.cancelAt # None)
        => /\ Len(current_task.results) = rt.cancelAt
           /\ current_task.status = "cancelled"

\* The loop head is reached after a step's result was stored.
AtLoopHead == rt.pc = "store" /\ rt'.pc # "store" /\ rt'.stop # "error"

\* The status a run ends with after execute_plan has returned.
FinalStatus == IF rt.raised THEN "failed" ELSE "completed"

\* C7: when the time limit has passed at the loop head before step i+1, no
\* further step is run and run_task receives exactly the i results recorded;
\* a run stopped by the limit then ends as one stopped by cancellation does,
\* with the same final status and the partial results kept.
C7_TimeLimitStopsLikeCancel ==
    [][/\ (AtLoopHead /\ executor.expired /\ Len(executor.results) < Len(rt.plan))
            => /\ rt'.pc = "save2"
               /\ rt'.stop \in {"timeout", "cancel"}
               /\ executor' = executor
               /\ toolCalls' = toolCalls
               /\ current_task'.results = executor.results
       /\ (rt'.pc \in {"save3", "save4"} /\ rt'.stop \in {"timeout", "cancel"})
            => /\ Len(current_task'.results) = rt'.stopAt
               /\ current_task'.status = FinalStatus']_vars

\* A run of a full-length plan stopped by the time limit after its first
\* step, ended with that one result.
C7_Witness ==
    /\ rt.pc = "save3"
    /\ rt.stop = "timeout"
    /\ rt.stopAt = 1
    /\ Len(rt.plan) = MaxSteps
    /\ Len(current_task.results) = 1

\* execute_plan has returned, with no cancellation and no expiry.
Undisturbed == rt.pc = "save2" /\ ~executor.cancel /\ ~executor.expired

\* C8: a step j whose tool the registry lacks gets a failed result, no tool
\* is invoked for it, and step j+1 is executed.
C8_UnknownToolStep ==
    Undisturbed
        => \A j \in 1..Len(executor.results) :
              (rt.plan[j] \notin registry \cup {"none"})
                  => /\ ~executor.results[j].success
                     /\ j \notin toolCalls
                     /\ j < Len(rt.plan) => Len(executor.results) >= j + 1

\* C9: absent cancellation and expiry, execute_plan on a plan of n steps
\* returns n results, one per step in plan order, whatever failed inside a
\* step, the memory write of a step's result included.
C9_OneResultPerStep ==
    Undisturbed
        => /\ Len(executor.results) = Len(rt.plan)
           /\ \A j \in 1..Len(executor.results) : executor.results[j].step_id = j

\* A message for Task t that a busy Agent has sent back at least once.
Retried(t) == \E m \in BagToSet(queue) : m.task = t /\ m.retries >= 1

\* A worker has taken a delivery of Task t past the busy test.
Taken(t) == \E w \in Workers : run[w].pc # "idle" /\ run[w].task = t

\* C11: a delivery that finds the Agent busy is retried: the message taken
\* from the broker is either put back, or the delivery ends with
\* MaxRetriesExceededError on record; and a retried Task is eventually taken
\* up by a worker past the busy test or ends with that error.
C11_BusyDispatchRetriedOrReported ==
    /\ [][\A t \in DOMAIN tasks :
              (Queued(queue', t) < Queued(queue, t)
                  /\ \A n \in 0..DispatchMaxRetries :
                        CopiesIn(Msg(t, n), queue') <= CopiesIn(Msg(t, n), queue))
                  => Taken(t)' \/ t \in failed_dispatch']_vars
    /\ \A t \in Tasks : Retried(t) ~> (Taken(t) \/ t \in failed_dispatch)

\* The second Task's dispatch has used up its retries while the Agent was
\* busy with the first: the error is on record and the row still pending.
C11_Witness ==
    /\ "t2" \in failed_dispatch
    /\ tasks["t2"].status = "pending"
    /\ tasks["t1"].status # "pending"

\* The list search(namespace) with the default limit returns now.
Searched(ns) ==
    IF search_cache[cache_key(ns, 5)] # NoList
    THEN search_cache[cache_key(ns, 5)]
    ELSE IndexSearch(ns, 5)

\* The batch loop ends a flush tick in this step.
TickEnds == batch_loop.pc # "sleep" /\ batch_loop'.pc = "sleep"

\* C12: when a flush tick has passed, every item that was queued for a
\* namespace at the tick's start is stored in that namespace, is returned
\* by a search there, and is no longer in the namespace's pending queue.
C12_FlushStoresAllQueued ==
    [][TickEnds
          => \A ns \in Namespaces : \A e \in batch_loop.queued[ns] :
                /\ e \in vector_store'[ns]
                /\ e.id \in Searched(ns)'
                /\ e \notin Range(batch_queue'[ns])]_vars

\* The search call that starts in this step is answered from the cache.
ServedFromCache(key) ==
    /\ search_op'.pc = "idle"
    /\ search_op'.hit
    /\ last_result'[key] = last_result[key]

C14_CompletedNotBeforeStarted ==
    \A t \in DOMAIN tasks :
        (tasks[t].started_at # None /\ tasks[t].completed_at # None)
            => tasks[t].completed_at >= tasks[t].started_at

\* C15: cleanup_old_completed_tasks deletes a Task only after its record
\* was written to the archive; when the archive was not written, no Task
\* of the batch is deleted.
C15_DeletedOnlyWhenArchived ==
    [][\A t \in DOMAIN tasks :
          t \notin DOMAIN tasks' => \E file \in archive : \E r \in file : r.id = t]_vars

\* C16: process_scheduled_tasks enqueues each pending Task whose
\* scheduled_for time has passed exactly once: a Task is enqueued only in
\* the step that clears its scheduled_for, so never a second time by an
\* overlapping or a later scan, and scheduled_for is cleared only together
\* with the enqueue.
C16_PromotedExactlyOnce ==
    [][\A t \in DOMAIN tasks :
          /\ Queued(queue', t) > Queued(queue, t)
                => tasks[t].scheduled_for # None /\ tasks'[t].scheduled_for = None
          /\ (tasks[t].scheduled_for # None /\ tasks'[t].scheduled_for = None)
                => Queued(queue', t) = Queued(queue, t) + 1]_vars

\* C17: create_plan never raises: run_task goes on from it to the save of
\* the plan, never to its except clause, and when a call inside create_plan
\* failed the plan it returned is the three-step fallback plan (analyze,
\* search, summarize).
C17_CreatePlanFallsBack ==
    [][rt.pc = "plan"
          => /\ rt'.pc \in {"plan", "save1"}
             /\ (rt'.pc = "save1" /\ rt'.plan_failed) => rt'.plan = fallback_plan]_vars

\* create_plan has returned the fallback plan after a failure inside it.
C17_Witness ==
    /\ rt.pc = "save1"
    /\ rt.plan_failed
    /\ rt.plan = fallback_plan
    /\ current_task.status = "executing"

\* C18: reflect_on_task never raises: run_task goes on from it to the
\* completion of the task, which gets a terminal status and keeps the step
\* results execute_plan returned; when the reasoning call or the storing of
\* the reflection failed, the reflection is the default record.
C18_ReflectionNeverFailsTheTask ==
    /\ [][(rt.pc = "reflect" /\ rt'.pc # "reflect")
              => /\ rt'.pc = "save3"
                 /\ current_task'.status \in Terminal
                 /\ current_task'.results = executor.results
                 /\ rt'.reflect_failed => current_task'.reflection = default_reflection]_vars
    /\ [](rt.pc = "save3" => /\ current_task.status \in Terminal
                             /\ current_task.results = executor.results)

\* A task with step results was completed with the default reflection.
C18_Witness ==
    /\ rt.pc = "save3"
    /\ rt.reflect_failed
    /\ current_task.status = "completed"
    /\ current_task.reflection = default_reflection
    /\ Len(current_task.results) > 0

\* C19: a Task whose status is failed has an error, and its row holds the
\* plan and the step results that the failed delivery had produced when
\* the exception came.
C19_FailedKeepsErrorPlanResults ==
    \A t \in DOMAIN tasks :
        tasks[t].status = "failed"
            => /\ tasks[t].error # None
               /\ \A w \in Workers :
                     (At(w, "h_release") /\ run[w].task = t)
                         => /\ run[w].produced # "none" => tasks[t].plan # None
                            /\ run[w].produced = "results" => tasks[t].results # None

\* C20: an entry that delete_conversation or delete_task_memory has
\* deleted is retrievable nowhere: it is not in the vector index, get by
\* its id finds nothing, and the in-process recency cache of its task does
\* not list it.
C20_DeletedNotRetrievable ==
    \A e \in deleted_entries :
        /\ \A ns \in Namespaces : e \notin vector_store[ns] /\ Get(e.id, ns).id = None
        /\ e.task \in DOMAIN task_memory_cache => e.id \notin task_memory_cache[e.task]

\* The edges of the Task lifecycle: pending -> running -> a terminal
\* status, and the retry loop's failed -> pending.
StatusEdges ==
    {<<"pending", "running">>, <<"running", "completed">>, <<"running", "failed">>,
     <<"running", "cancelled">>, <<"failed", "pending">>}

\* C21: the status of a Task changes only along pending -> running ->
\* {completed, failed, cancelled} and, by the retry loop, failed -> pending:
\* a completed or cancelled Task keeps its status, and a Task becomes
\* terminal only from running.
C21_StatusFollowsLifecycle ==
    [][\A t \in DOMAIN tasks :
          tasks'[t].status # tasks[t].status
              => <<tasks[t].status, tasks'[t].status>> \in StatusEdges]_vars

\* C22: nothing deletes an Agent, or removes its memories, while one of the
\* Agent's tasks is running.
C22_NoDeleteWhileRunning ==
    [][(\E ns \in Namespaces : vector_store[ns] \ vector_store'[ns] # {})
          => agent_status # "running"]_vars
\* A run_task call returns in this step.
RunTaskCallReturns == run_result = "none" /\ run_result' # "none"

\* C23: a run_task call made while the Agent's status is not idle returns
\* the refusal and changes neither the status, nor current_task, nor the
\* run in progress, its executor and its saved state.
C23_BusyRunTaskRefused ==
    [][(RunTaskCallReturns /\ agent_status # "idle")
          => /\ run_result' = "refused"
             /\ UNCHANGED <<agent_status, current_task, executor, rt, toolCalls, step_memory>>]_vars

\* A call has been refused while a task was between two of its steps.
C23_Witness ==
    run_result = "refused" /\ agent_status = "running" /\ rt.pc = "step"
\* C24: when add() returns, the entry it added is in the namespace's vector
\* index and in Redis under memory:{namespace}:{id}, and get(id, namespace)
\* returns it.
C24_AddedIsIndexedAndMirrored ==
    [][\A ns \in Namespaces :
          \A e \in vector_store'[ns] \ vector_store[ns] :
              /\ e \in redis_memory'[ns]
              /\ Get(e.id, ns)' = e]_vars
\* The executor passes its loop head and starts a plan step.
StepStarts == rt.pc # "step" /\ rt'.pc = "step"

\* C25: a cancel request made at any moment of a run, planning included,
\* is still set at the executor's next loop head: no plan step is started
\* in a run whose cancellation has been requested.
C25_NoStepStartsAfterCancel ==
    [][StepStarts => agent_status = "running"]_vars
\* C26: a cancel_agent_task that returns success while run_agent_task is
\* executing the Agent's plan has set the cancellation flag that the
\* executing AgentExecutor reads at its next step boundary.
C26_CancelTaskReachesRunningExecutor ==
    [][(cancel_result = "none" /\ cancel_result' = "cancelled"
            /\ rt.pc \in {"step", "store"})
          => executor'.cancel]_vars
\* C27: a Task that cancel_task has set to cancelled stays cancelled: no
\* queued or running delivery of execute_agent_task sets it to running,
\* completed or failed afterwards.
C27_CancelledStaysCancelled ==
    [][\A t \in DOMAIN tasks :
          tasks[t].status = "cancelled" => tasks'[t].status = "cancelled"]_vars
BusyDispatch == queue' # queue /\ run' = run

\* C29: a dispatch that finds the Agent busy changes neither the Task row
\* nor the Agent row; it is retried at most DispatchMaxRetries times; and
\* when the retries are used up, which happens on the delivery that follows
\* the last retry and not before, the Task's status is still pending.
C29_BusyDispatchLeavesRows ==
    /\ [][BusyDispatch
            => /\ UNCHANGED <<tasks, agents>>
               /\ \A t \in failed_dispatch' \ failed_dispatch :
                     /\ tasks'[t].status = "pending"
                     /\ CopiesIn(Msg(t, DispatchMaxRetries), queue) > 0]_vars
    /\ [](\A m \in BagToSet(queue) : m.retries <= DispatchMaxRetries)

\* The second Task's message is on its last retry, the Agent busy with the
\* first; the row is still pending.
C29_Witness ==
    /\ CopiesIn(Msg("t2", DispatchMaxRetries), queue) > 0
    /\ agents["a1"].status = "busy"
    /\ tasks["t2"].status = "pending"
    /\ tasks["t1"].status = "running"
\* C30: over a Task's life retry_count never exceeds max_retries and the
\* retry loop queues the Task at most max_retries times in total, however
\* retry_failed_tasks scans and deliveries of the Task interleave.
C30_RetriesBounded ==
    \A t \in DOMAIN tasks :
        /\ tasks[t].retry_count <= max_retries
        /\ retry_enqueued[t] <= max_retries
\* The worker was lost after it had written the Agent busy and Task t
\* running; the message is queued again.
CrashedWhileRunning(t) ==
    /\ crashes > 0
    /\ tasks[t].status = "running"
    /\ agents[AgentOf(t)].status = "busy"
    /\ \A w \in Workers : run[w].pc = "idle"

\* C31: after a worker is lost with the Agent busy and the Task running,
\* the redelivered message brings the Task to a terminal status and the
\* Agent back to idle.
C31_CrashedTaskEnds ==
    \A t \in {"t1"} :
        /\ CrashedWhileRunning(t) ~> (tasks[t].status \in Terminal)
        /\ CrashedWhileRunning(t) ~> (agents[AgentOf(t)].status = "idle")
\* The loop empties the pending queue of ns in this step.
Drains(ns) ==
    /\ ns \in DOMAIN batch_queue
    /\ batch_queue[ns] # <<>>
    /\ batch_queue'[ns] = <<>>

\* The loop is held up at the lock of one namespace while another
\* namespace, its lock free, has items waiting for this pass.
BlockedOnOtherLock ==
    /\ batch_loop.pc = "add_batch"
    /\ memory_locks(batch_loop.ns) # "loop"
    /\ \E ns \in batch_loop.todo :
          batch_queue[ns] # <<>> /\ memory_locks(ns) = "free"

\* C32: a namespace's pending queue is drained with the namespace's lock
\* held, and the flush of one namespace is never held up by the lock of
\* another.
C32_DrainAndFlushUnderOwnLock ==
    [][/\ \A ns \in Namespaces : Drains(ns) => memory_locks(ns)' = "loop"
       /\ ~BlockedOnOtherLock']_vars
\* C33: with no add_conversation in progress, get_conversation_history
\* returns for every task what the metadata scan of the vector index
\* returns, whether or not the recency cache has a list for the task.
C33_HistoryEqualsIndexScan ==
    conv_op = NoConv
        => \A k \in Tasks :
              conversation_history(k)
                  = {e.id : e \in {x \in vector_store["conversation:a1"] : x.task = k}}
\* C34: a reasoning call whose caller has degraded to the fallback plan, the
\* failed thinking-step result or the default reflection because the
\* provider raised has been made twice: the call and its one retry.
C34_DegradesAfterOneRetry ==
    llm_call.pc = "degraded" => llm_call.attempts = 2

\* C35: while Agent.status is idle no run_task of the Agent is in progress:
\* the run_task coroutine is not planning, executing a step, storing a
\* step's result or reflecting.
C35_IdleMeansNoRunInProgress ==
    agent_status = "idle" => rt.pc \notin {"plan", "step", "store", "reflect"}

\* The Tasks of Agent a that are running or that a dispatch holding the
\* Agent is moving into or out of running.
HeldTasks(a) ==
    {t \in DOMAIN tasks :
        /\ AgentOf(t) = a
        /\ \/ tasks[t].status = "running"
           \/ \E w \in Workers : ~At(w, "idle") /\ run[w].busied /\ run[w].task = t}

\* C36: a running Task's Agent is busy, and a busy Agent has exactly one
\* Task that is running or that the dispatch holding the Agent is moving
\* into or out of running.
C36_RunningIffBusy ==
    /\ \A t \in DOMAIN tasks :
          tasks[t].status = "running" => agents[AgentOf(t)].status = "busy"
    /\ \A a \in Agents :
          agents[a].status = "busy" => Cardinality(HeldTasks(a)) = 1

\* The delivery of worker w has written its Task as completed and is at
\* one of the later steps: about to store the results and release the
\* Agent, or in the handler because one of those two calls raised.
AfterCompleted(w) ==
    /\ \/ At(w, "release")
       \/ At(w, "h_fail") /\ run[w].produced = "results"
    /\ tasks[run[w].task].status = "completed"

\* C37: a step of a delivery that has written its Task as completed leaves
\* the Task's status, error and completed_at as they are, also when the
\* step is the handler's after a later call of the run raised.
C37_CompletedSurvivesLaterFailure ==
    [][\A w \in Workers :
          (AfterCompleted(w) /\ run'[w] # run[w])
             => LET t == run[w].task
                IN  /\ tasks'[t].status = tasks[t].status
                    /\ tasks'[t].error = tasks[t].error
                    /\ tasks'[t].completed_at = tasks[t].completed_at]_vars

\* C38: every entry of the list a search(min_score) call returned has a
\* score of at least that call's min_score, whether the list came from the
\* index or from the result cache.
C38_ReturnedAtLeastMinScore ==
    scored.results # NoList => \A i \in scored.results : score(i) >= scored.min_score

\* The ids of the items that are in a pending queue, in the batch the loop
\* has handed to add_batch, or in the vector index.
KeptIds ==
    UNION {{e.id : e \in vector_store[ns]} : ns \in Namespaces}
      \cup UNION {{e.id : e \in Range(batch_queue[ns])} : ns \in DOMAIN batch_queue}
      \cup {e.id : e \in Range(batch_loop.batch)}

\* C39: no item queued with queue_for_batch is lost: each is in its
\* namespace's pending queue or in the vector index, or on its way from
\* the one to the other inside the add_batch call of a flush.
C39_QueuedNeverLost ==
    \A i \in 1..(next_id - 1) : i \in KeptIds

====
